---- MODULE Spec2Model ----
(***************************************************************************)
(* Model of packages/react-native-platform-override/src/Cli.ts.            *)
(*                                                                         *)
(* Each CLI invocation is a process that runs doMain: it takes the         *)
(* cross-process lock, runs one yargs command (validate, add, remove or    *)
(* upgrade) and unlocks.  The manifest is the persisted document shared by *)
(* all processes.  CrossProcessLock and Api are imported by Cli.ts and are *)
(* modelled from their contracts in spec.md (sections 4.1, 4.3, 4.4, 4.5). *)
(*                                                                         *)
(* pc values: "start" (before tryLock), "waiting" (inside lock()), "body"  *)
(* (fn entered), one value per await point of the command handlers,        *)
(* "finish" (fn returned, before Cli.ts 358), "done" (after unlock()),     *)
(* "failed" (an awaited call threw; doMain never resumes, so Cli.ts 358 is *)
(* not reached) and "exited" (process.exit(1) at Cli.ts 175).              *)
(* getNpmPackage reads the tool's own package description and is taken to  *)
(* succeed.  Any Api call may throw (manifest not found, I/O failure); a   *)
(* call that throws leaves the persisted manifest as it was.               *)
(***************************************************************************)
EXTENDS Integers, Sequences, FiniteSets, TLC

\* ---------------------------------------------------------------- bounds
NumProcs == 2      \* CLI processes started concurrently
NumNames == 2      \* distinct override names
NumVersions == 2   \* distinct base versions / prompt answers
MaxValErrs == 1    \* length of the list Api.validateManifest returns in Spec
MaxErrs == 3       \* length of the list given to printValidationErrors in SpecPrint

Procs == 1..NumProcs
NoProc == 0
Names == 1..NumNames
Versions == 1..NumVersions

VARIABLES
  pc,            \* position of each process in doMain / its command
  lockHolder,    \* process holding the CrossProcessLock, or NoProc
  manifest,      \* persisted manifest: sequence of override entries
  cmd,           \* argv of each process once yargs has parsed it
  startManifest, \* manifest as it was when the process's command started
  tryResult,     \* what lock.tryLock() returned to the process
  calledLock,    \* whether the process called the blocking lock.lock()
  blockedBy,     \* holder of the lock when tryLock() returned false
  unlockCount,   \* number of lock.unlock() calls of the process
  badUnlock,     \* whether the process called unlock() while not the holder
  spinner,       \* state of the process's ora spinner
  exitCode,      \* process.exitCode / process.exit status; -1 is unset
  msgs,          \* console messages of the command
  valCount,      \* length of the list Api.validateManifest returned; -1 none
  printed,       \* number of lines printValidationErrors wrote to stderr
  validationErrors, \* SpecPrint: the caller's list of validation errors
  printResult    \* SpecPrint: outcome of printValidationErrors

cliVars == <<pc, lockHolder, manifest, cmd, startManifest, tryResult, calledLock,
             blockedBy, unlockCount, badUnlock, spinner, exitCode, msgs, valCount,
             printed>>
printVars == <<validationErrors, printResult>>
vars == <<pc, lockHolder, manifest, cmd, startManifest, tryResult, calledLock,
          blockedBy, unlockCount, badUnlock, spinner, exitCode, msgs, valCount,
          printed, validationErrors, printResult>>

\* ------------------------------------------------------- sequence helpers
RECURSIVE SeqsUpTo(_, _)
SeqsUpTo(S, n) == IF n = 0 THEN {<<>>}
                  ELSE LET shorter == SeqsUpTo(S, n - 1)
                       IN shorter \cup {Append(s, x) : s \in {t \in shorter : Len(t) = n - 1}, x \in S}

\* ------------------------------------------------------------- manifest
Entries == [name : Names, ver : Versions]

HasOverride(m, n) == \E i \in 1..Len(m) : m[i].name = n

CountName(m, n) == Cardinality({i \in 1..Len(m) : m[i].name = n})

UniqueNames(m) == \A i, j \in 1..Len(m) : m[i].name = m[j].name => i = j

\* Manifest.remove(overrideName) -> bool
ManifestRemove(m, n) ==
  [removed |-> HasOverride(m, n),
   manifest |-> SelectSeq(m, LAMBDA e : e.name # n)]

\* Manifest.add(entry): inserts or replaces by overrideName
ManifestAdd(m, e) ==
  IF HasOverride(m, e.name)
    THEN [i \in 1..Len(m) |-> IF m[i].name = e.name THEN e ELSE m[i]]
    ELSE Append(m, e)

\* Upgrade engine: the entries in positions S are re-based on version target
ManifestUpgrade(m, S, target) ==
  [i \in 1..Len(m) |-> IF i \in S THEN [m[i] EXCEPT !.ver = target] ELSE m[i]]

ValidManifests == {m \in SeqsUpTo(Entries, NumNames) : UniqueNames(m)}

\* ----------------------------------------------------------------- lock
\* CrossProcessLock.tryLock(): non-blocking, true if acquired
TryLock(holder, p) ==
  [acquired |-> holder = NoProc,
   holder |-> IF holder = NoProc THEN p ELSE holder]

\* CrossProcessLock.lock() can return only once nobody holds the lock
LockCanReturn(holder) == holder = NoProc

\* CrossProcessLock.unlock(): releases
Unlock(holder, p) == NoProc

\* ---------------------------------------------------- validation errors
ErrorTypeOrder ==
  <<"missingFromManifest", "overrideNotFound", "baseNotFound", "outOfDate",
    "overrideDifferentFromBase", "overrideSameAsBase", "expectedFile",
    "expectedDirectory">>

ErrorTypes == {ErrorTypeOrder[i] : i \in 1..Len(ErrorTypeOrder)}

ValidationError == [type : ErrorTypes, overrideName : Names]

\* filteredErrors.sort((a, b) => a.overrideName.localeCompare(b.overrideName))
RECURSIVE SortByName(_)
SortByName(s) ==
  IF Len(s) <= 1 THEN s
  ELSE LET rest == SortByName(Tail(s))
           before == SelectSeq(rest, LAMBDA e : e.overrideName < Head(s).overrideName)
           after == SelectSeq(rest, LAMBDA e : e.overrideName >= Head(s).overrideName)
       IN before \o <<Head(s)>> \o after

\* printErrorType with _.filter in place of _.remove: the list keeps its elements
PrintErrorType_Filter(type, errors) ==
  LET filteredErrors == SortByName(SelectSeq(errors, LAMBDA err : err.type = type))
  IN [errors |-> errors,
      lines |-> IF Len(filteredErrors) > 0
                  THEN <<(<<"msg", type>>)>>
                       \o [i \in 1..Len(filteredErrors) |-> <<"item", filteredErrors[i].overrideName>>]
                       \o <<(<<"blank">>)>>
                  ELSE <<>>]

\* printErrorType(type, errors, message): errors after _.remove, and the lines
PrintErrorType(type, errors) ==
  LET filteredErrors == SortByName(SelectSeq(errors, LAMBDA err : err.type = type))
  IN [errors |-> SelectSeq(errors, LAMBDA err : err.type # type),
      lines |-> IF Len(filteredErrors) > 0
                  THEN <<(<<"msg", type>>)>>
                       \o [i \in 1..Len(filteredErrors) |-> <<"item", filteredErrors[i].overrideName>>]
                       \o <<(<<"blank">>)>>
                  ELSE <<>>]

\* the eight printErrorType calls, from the i-th on
RECURSIVE PrintFrom(_, _, _)
PrintFrom(i, errors, out) ==
  IF i > Len(ErrorTypeOrder) THEN [errors |-> errors, out |-> out]
  ELSE LET r == PrintErrorType(ErrorTypeOrder[i], errors)
       IN PrintFrom(i + 1, r.errors, out \o r.lines)

\* printValidationErrors(validationErrors): the lines written, the working
\* list left, the caller's list afterwards and whether it threw
PrintValidationErrors(validationErrs) ==
  IF Len(validationErrs) = 0
    THEN [out |-> <<>>, errors |-> <<>>, caller |-> validationErrs, thrown |-> FALSE]
    ELSE LET errors == validationErrs   \* _.clone
             r == PrintFrom(1, errors, <<(<<"blank">>)>>)
         IN [out |-> r.out, errors |-> r.errors, caller |-> validationErrs,
             thrown |-> Len(r.errors) # 0]

\* ----------------------------------------------------------------- Init
NoCmd == [kind |-> "none", name |-> 0, ver |-> 0]

Commands ==
  {[kind |-> "validate", name |-> 0, ver |-> 0]}
  \cup [kind : {"add"}, name : Names, ver : Versions]
  \cup [kind : {"remove"}, name : Names, ver : {0}]
  \cup [kind : {"upgrade"}, name : {0}, ver : Versions]

InitCli ==
  /\ pc = [p \in Procs |-> "start"]
  /\ lockHolder = NoProc
  /\ cmd = [p \in Procs |-> NoCmd]
  /\ startManifest = [p \in Procs |-> <<>>]
  /\ tryResult = [p \in Procs |-> "none"]
  /\ calledLock = [p \in Procs |-> FALSE]
  /\ blockedBy = [p \in Procs |-> NoProc]
  /\ unlockCount = [p \in Procs |-> 0]
  /\ badUnlock = [p \in Procs |-> FALSE]
  /\ spinner = [p \in Procs |-> "none"]
  /\ exitCode = [p \in Procs |-> -1]
  /\ msgs = [p \in Procs |-> {}]
  /\ valCount = [p \in Procs |-> -1]
  /\ printed = [p \in Procs |-> 0]

NotPrinted ==
  [called |-> FALSE, input |-> <<>>, out |-> <<>>, errors |-> <<>>, thrown |-> FALSE]

Init ==
  /\ InitCli
  /\ manifest \in ValidManifests
  /\ validationErrors = <<>>
  /\ printResult = NotPrinted

\* --------------------------------------------------------------- doMain
\* Cli.ts 349-355 with the await on lock.tryLock() missing: the promise is
\* truthy, so the process never waits
DoMainTryLock_NoAwait(p) ==
  /\ pc[p] = "start"
  /\ LET r == TryLock(lockHolder, p)
     IN /\ lockHolder' = r.holder
        /\ tryResult' = [tryResult EXCEPT ![p] = IF r.acquired THEN "true" ELSE "false"]
        /\ blockedBy' = [blockedBy EXCEPT ![p] = IF r.acquired THEN NoProc ELSE lockHolder]
        /\ pc' = [pc EXCEPT ![p] = "body"]
  /\ UNCHANGED <<manifest, cmd, startManifest, calledLock, unlockCount, badUnlock,
                 spinner, exitCode, msgs, valCount, printed, printVars>>

\* Cli.ts 347-353: tryLock(); when it fails start the spinner and call lock()
DoMainTryLock(p) ==
  /\ pc[p] = "start"
  /\ LET r == TryLock(lockHolder, p)
     IN /\ lockHolder' = r.holder
        /\ tryResult' = [tryResult EXCEPT ![p] = IF r.acquired THEN "true" ELSE "false"]
        /\ blockedBy' = [blockedBy EXCEPT ![p] = IF r.acquired THEN NoProc ELSE lockHolder]
        /\ calledLock' = [calledLock EXCEPT ![p] = ~r.acquired]
        /\ spinner' = [spinner EXCEPT ![p] = IF r.acquired THEN "none" ELSE "spinning"]
        /\ pc' = [pc EXCEPT ![p] = IF r.acquired THEN "body" ELSE "waiting"]
  /\ UNCHANGED <<manifest, cmd, startManifest, unlockCount, badUnlock, exitCode,
                 msgs, valCount, printed, printVars>>

\* Cli.ts 353-354 with the await on lock.lock() missing: the process goes on
\* without the lock
DoMainLock_NoAwait(p) ==
  /\ pc[p] = "waiting"
  /\ spinner' = [spinner EXCEPT ![p] = "stopped"]
  /\ pc' = [pc EXCEPT ![p] = "body"]
  /\ UNCHANGED <<lockHolder, manifest, cmd, startManifest, tryResult, calledLock,
                 blockedBy, unlockCount, badUnlock, exitCode, msgs, valCount,
                 printed, printVars>>

\* Cli.ts 353-354: lock() returns with the lock held; stop the spinner
DoMainLock(p) ==
  /\ pc[p] = "waiting"
  /\ LockCanReturn(lockHolder)
  /\ lockHolder' = p
  /\ spinner' = [spinner EXCEPT ![p] = "stopped"]
  /\ pc' = [pc EXCEPT ![p] = "body"]
  /\ UNCHANGED <<manifest, cmd, startManifest, tryResult, calledLock, blockedBy,
                 unlockCount, badUnlock, exitCode, msgs, valCount, printed, printVars>>

\* Cli.ts 357, 24-104: fn() parses argv and dispatches to the command handler
FirstStep(kind) ==
  CASE kind = "validate" -> "validate"
    [] kind = "add" -> "add_has"
    [] kind = "remove" -> "remove"
    [] kind = "upgrade" -> "upgrade"

Main(p) ==
  /\ pc[p] = "body"
  /\ \E c \in Commands :
       /\ cmd' = [cmd EXCEPT ![p] = c]
       /\ pc' = [pc EXCEPT ![p] = FirstStep(c.kind)]
  /\ startManifest' = [startManifest EXCEPT ![p] = manifest]
  /\ UNCHANGED <<lockHolder, manifest, tryResult, calledLock, blockedBy, unlockCount,
                 badUnlock, spinner, exitCode, msgs, valCount, printed, printVars>>

\* Cli.ts 358: fn() has returned; lock.unlock(), and the process ends with
\* its exit code (its command's locals and console are gone with it)
DoMainUnlock(p) ==
  /\ pc[p] = "finish"
  /\ lockHolder' = Unlock(lockHolder, p)
  /\ unlockCount' = [unlockCount EXCEPT ![p] = @ + 1]
  /\ badUnlock' = [badUnlock EXCEPT ![p] = @ \/ lockHolder # p]
  /\ pc' = [pc EXCEPT ![p] = "done"]
  /\ cmd' = [cmd EXCEPT ![p] = NoCmd]
  /\ startManifest' = [startManifest EXCEPT ![p] = <<>>]
  /\ spinner' = [spinner EXCEPT ![p] = "none"]
  /\ msgs' = [msgs EXCEPT ![p] = {}]
  /\ valCount' = [valCount EXCEPT ![p] = -1]
  /\ printed' = [printed EXCEPT ![p] = 0]
  /\ UNCHANGED <<manifest, tryResult, calledLock, blockedBy, exitCode, printVars>>

\* ------------------------------------------------------------- validate
\* what validateManifest (Cli.ts 117-125) observes for each list that
\* Api.validateManifest can return: its length, and the number of lines
\* printValidationErrors writes for it and whether it throws
ValidateOutcomes ==
  {[length |-> Len(validationErrs),
    lines |-> Len(PrintValidationErrors(validationErrs).out),
    thrown |-> PrintValidationErrors(validationErrs).thrown] :
     validationErrs \in SeqsUpTo(ValidationError, MaxValErrs)}

\* Cli.ts 110-127 without line 124: the exit code is never set
ValidateManifest_NoExitCode(p) ==
  /\ pc[p] = "validate"
  /\ \/ /\ spinner' = [spinner EXCEPT ![p] = "failed"]
        /\ pc' = [pc EXCEPT ![p] = "failed"]
        /\ UNCHANGED <<valCount, printed, exitCode>>
     \/ \E r \in ValidateOutcomes :
          /\ valCount' = [valCount EXCEPT ![p] = r.length]
          /\ spinner' = [spinner EXCEPT ![p] =
                           IF r.length = 0 THEN "succeeded" ELSE "failed"]
          /\ printed' = [printed EXCEPT ![p] = IF r.length = 0 THEN 0 ELSE r.lines]
          /\ UNCHANGED exitCode
          /\ pc' = [pc EXCEPT ![p] =
                      IF r.length # 0 /\ r.thrown THEN "failed" ELSE "finish"]
  /\ UNCHANGED <<lockHolder, manifest, cmd, startManifest, tryResult, calledLock,
                 blockedBy, unlockCount, badUnlock, msgs, printVars>>

\* Cli.ts 110-127: validateManifest; spinnerGuard (327-339) fails the spinner
\* and rethrows when Api.validateManifest or printValidationErrors throws
ValidateManifest(p) ==
  /\ pc[p] = "validate"
  /\ \/ /\ spinner' = [spinner EXCEPT ![p] = "failed"]
        /\ pc' = [pc EXCEPT ![p] = "failed"]
        /\ UNCHANGED <<valCount, printed, exitCode>>
     \/ \E r \in ValidateOutcomes :
          /\ valCount' = [valCount EXCEPT ![p] = r.length]
          /\ spinner' = [spinner EXCEPT ![p] =
                           IF r.length = 0 THEN "succeeded" ELSE "failed"]
          /\ printed' = [printed EXCEPT ![p] = IF r.length = 0 THEN 0 ELSE r.lines]
          /\ exitCode' = [exitCode EXCEPT ![p] =
                            IF r.length # 0 /\ ~r.thrown THEN 1 ELSE @]
          /\ pc' = [pc EXCEPT ![p] =
                      IF r.length # 0 /\ r.thrown THEN "failed" ELSE "finish"]
  /\ UNCHANGED <<lockHolder, manifest, cmd, startManifest, tryResult, calledLock,
                 blockedBy, unlockCount, badUnlock, msgs, printVars>>

\* ------------------------------------------------------------------ add
\* Cli.ts 133-143: findManifest, Api.hasOverride and the overwrite warning;
\* either call may throw, before any spinner exists
AddOverride_Has(p) ==
  /\ pc[p] = "add_has"
  /\ \/ /\ pc' = [pc EXCEPT ![p] = "failed"]
        /\ UNCHANGED msgs
     \/ /\ msgs' = [msgs EXCEPT ![p] =
                      IF HasOverride(manifest, cmd[p].name) THEN @ \cup {"warnOverwrite"} ELSE @]
        /\ pc' = [pc EXCEPT ![p] = "add_build"]
  /\ UNCHANGED <<lockHolder, manifest, cmd, startManifest, tryResult, calledLock,
                 blockedBy, unlockCount, badUnlock, spinner, exitCode, valCount,
                 printed, printVars>>

\* Cli.ts 145-153: the prompt (throws before the spinner starts), then under
\* spinnerGuard Api.getOverrideFactory and overrideFromDetails
AddOverride_Build(p) ==
  /\ pc[p] = "add_build"
  /\ \/ /\ pc' = [pc EXCEPT ![p] = "failed"]
        /\ UNCHANGED spinner
     \/ /\ spinner' = [spinner EXCEPT ![p] = "failed"]
        /\ pc' = [pc EXCEPT ![p] = "failed"]
     \/ /\ spinner' = [spinner EXCEPT ![p] = "spinning"]
        /\ pc' = [pc EXCEPT ![p] = "add_remove"]
  /\ UNCHANGED <<lockHolder, manifest, cmd, startManifest, tryResult, calledLock,
                 blockedBy, unlockCount, badUnlock, exitCode, msgs, valCount,
                 printed, printVars>>

\* Cli.ts 155: Api.removeOverride(overrideName), result ignored
AddOverride_Remove(p) ==
  /\ pc[p] = "add_remove"
  /\ \/ /\ spinner' = [spinner EXCEPT ![p] = "failed"]
        /\ pc' = [pc EXCEPT ![p] = "failed"]
        /\ UNCHANGED manifest
     \/ /\ manifest' = ManifestRemove(manifest, cmd[p].name).manifest
        /\ pc' = [pc EXCEPT ![p] = "add_add"]
        /\ UNCHANGED spinner
  /\ UNCHANGED <<lockHolder, cmd, startManifest, tryResult, calledLock, blockedBy,
                 unlockCount, badUnlock, exitCode, msgs, valCount, printed, printVars>>

\* Cli.ts 155-157 with the two Api calls swapped: the override is added and
\* then removed again
AddOverride_Add_ThenRemove(p) ==
  /\ pc[p] = "add_add"
  /\ \/ /\ spinner' = [spinner EXCEPT ![p] = "failed"]
        /\ pc' = [pc EXCEPT ![p] = "failed"]
        /\ UNCHANGED manifest
     \/ /\ manifest' = ManifestRemove(
                         ManifestAdd(manifest, [name |-> cmd[p].name, ver |-> cmd[p].ver]),
                         cmd[p].name).manifest
        /\ spinner' = [spinner EXCEPT ![p] = "succeeded"]
        /\ pc' = [pc EXCEPT ![p] = "finish"]
  /\ UNCHANGED <<lockHolder, cmd, startManifest, tryResult, calledLock, blockedBy,
                 unlockCount, badUnlock, exitCode, msgs, valCount, printed, printVars>>

\* Cli.ts 156-157: Api.addOverride(override), spinner.succeed()
AddOverride_Add(p) ==
  /\ pc[p] = "add_add"
  /\ \/ /\ spinner' = [spinner EXCEPT ![p] = "failed"]
        /\ pc' = [pc EXCEPT ![p] = "failed"]
        /\ UNCHANGED manifest
     \/ /\ manifest' = ManifestAdd(manifest, [name |-> cmd[p].name, ver |-> cmd[p].ver])
        /\ spinner' = [spinner EXCEPT ![p] = "succeeded"]
        /\ pc' = [pc EXCEPT ![p] = "finish"]
  /\ UNCHANGED <<lockHolder, cmd, startManifest, tryResult, calledLock, blockedBy,
                 unlockCount, badUnlock, exitCode, msgs, valCount, printed, printVars>>

\* --------------------------------------------------------------- remove
\* Cli.ts 164-177 without line 175: the failure is printed, the process goes on
RemoveOverride_NoExit(p) ==
  /\ pc[p] = "remove"
  /\ \/ /\ pc' = [pc EXCEPT ![p] = "failed"]
        /\ UNCHANGED <<manifest, msgs, exitCode>>
     \/ LET r == ManifestRemove(manifest, cmd[p].name)
        IN /\ manifest' = r.manifest
           /\ msgs' = [msgs EXCEPT ![p] =
                         @ \cup {IF r.removed THEN "removed" ELSE "couldNotRemove"}]
           /\ UNCHANGED exitCode
           /\ pc' = [pc EXCEPT ![p] = "finish"]
  /\ UNCHANGED <<lockHolder, cmd, startManifest, tryResult, calledLock, blockedBy,
                 unlockCount, badUnlock, spinner, valCount, printed, printVars>>

\* Cli.ts 164-177: findManifest and Api.removeOverride may throw; otherwise
\* success is logged, or the failure is printed and process.exit(1) ends the
\* process
RemoveOverride(p) ==
  /\ pc[p] = "remove"
  /\ \/ /\ pc' = [pc EXCEPT ![p] = "failed"]
        /\ UNCHANGED <<manifest, msgs, exitCode>>
     \/ LET r == ManifestRemove(manifest, cmd[p].name)
        IN /\ manifest' = r.manifest
           /\ msgs' = [msgs EXCEPT ![p] =
                         @ \cup {IF r.removed THEN "removed" ELSE "couldNotRemove"}]
           /\ exitCode' = [exitCode EXCEPT ![p] = IF r.removed THEN @ ELSE 1]
           /\ pc' = [pc EXCEPT ![p] = IF r.removed THEN "finish" ELSE "exited"]
  /\ UNCHANGED <<lockHolder, cmd, startManifest, tryResult, calledLock, blockedBy,
                 unlockCount, badUnlock, spinner, valCount, printed, printVars>>

\* -------------------------------------------------------------- upgrade
\* Cli.ts 183-199: Api.upgradeOverrides re-bases some of the entries whose
\* baseVersion is not the target version, or throws
Upgrade(p) ==
  /\ pc[p] = "upgrade"
  /\ \/ /\ spinner' = [spinner EXCEPT ![p] = "failed"]
        /\ pc' = [pc EXCEPT ![p] = "failed"]
        /\ UNCHANGED <<manifest, msgs>>
     \/ \E S \in SUBSET {i \in 1..Len(manifest) : manifest[i].ver # cmd[p].ver} :
          /\ manifest' = ManifestUpgrade(manifest, S, cmd[p].ver)
          /\ spinner' = [spinner EXCEPT ![p] = "succeeded"]
          /\ msgs' = [msgs EXCEPT ![p] = @ \cup {"upgradeStats"}]
          /\ pc' = [pc EXCEPT ![p] = "finish"]
  /\ UNCHANGED <<lockHolder, cmd, startManifest, tryResult, calledLock, blockedBy,
                 unlockCount, badUnlock, exitCode, valCount, printed, printVars>>

\* -------------------------------------------------------- specifications
Step(p) ==
  \/ DoMainTryLock(p)
  \/ DoMainLock(p)
  \/ Main(p)
  \/ ValidateManifest(p)
  \/ AddOverride_Has(p)
  \/ AddOverride_Build(p)
  \/ AddOverride_Remove(p)
  \/ AddOverride_Add(p)
  \/ RemoveOverride(p)
  \/ Upgrade(p)
  \/ DoMainUnlock(p)

Next == \E p \in Procs : Step(p)

Spec == Init /\ [][Next]_vars

\* every started CLI process is an operating-system process that keeps running
FairSpec == Spec /\ \A p \in Procs : WF_vars(Step(p))

\* printValidationErrors applied to every list of validation errors
InitPrint ==
  /\ InitCli
  /\ manifest = <<>>
  /\ validationErrors \in SeqsUpTo(ValidationError, MaxErrs)
  /\ printResult = NotPrinted

CallPrintValidationErrors ==
  /\ ~printResult.called
  /\ LET r == PrintValidationErrors(validationErrors)
     IN /\ printResult' = [called |-> TRUE, input |-> validationErrors, out |-> r.out,
                           errors |-> r.errors, thrown |-> r.thrown]
        /\ validationErrors' = r.caller
  /\ UNCHANGED cliVars

NextPrint == CallPrintValidationErrors

SpecPrint == InitPrint /\ [][NextPrint]_vars

\* ---------------------------------------------------------------- claims
\* positions in which a process is executing its command body
BodyPcs == {"body", "validate", "add_has", "add_build", "add_remove", "add_add",
            "remove", "upgrade"}

\* positions in which the top-level operation of a process has ended
EndPcs == {"done", "failed", "exited"}

EntrySet(m) == {m[i] : i \in 1..Len(m)}

\* C1: the lock acquired in doMain is released by unlock() after the
\* top-level operation completes on every exit path: normal return, a thrown
\* failure, and the remove command's exit with status 1.
C1_UnlockOnEveryExit ==
  \A p \in Procs : pc[p] \in EndPcs => unlockCount[p] >= 1

\* C2: at most one process at a time executes its command body, and every
\* process in its command body (where all Api calls are made) holds the lock.
C2_OneBodyAtATime ==
  /\ Cardinality({p \in Procs : pc[p] \in BodyPcs}) <= 1
  /\ \A p \in Procs : pc[p] \in BodyPcs => lockHolder = p

C2_Witness ==
  \E p, q \in Procs : pc[p] = "add_remove" /\ pc[q] = "waiting"

\* C3: tryLock() never blocks; a process whose tryLock() returned false called
\* lock() and is in or past its command body only after the process that held
\* the lock has called unlock(); a process whose tryLock() returned true never
\* calls lock() and goes straight to its command body.
C3_SecondWaitsForUnlock ==
  \A p \in Procs :
    /\ pc[p] = "start" => ENABLED DoMainTryLock(p)
    /\ tryResult[p] = "false" =>
         /\ calledLock[p]
         /\ blockedBy[p] # NoProc
         /\ pc[p] # "waiting" => unlockCount[blockedBy[p]] >= 1
    /\ tryResult[p] = "true" => ~calledLock[p] /\ pc[p] \notin {"start", "waiting"}

C3_Witness ==
  \E p, q \in Procs :
    /\ tryResult[p] = "true" /\ pc[p] = "done"
    /\ tryResult[q] = "false" /\ blockedBy[q] = p /\ pc[q] \in BodyPcs

\* C4: the manifest never holds two entries with one overrideName, and when an
\* add command has succeeded the manifest holds exactly one entry for its
\* name, the new one, every other entry is as before, and the manifest grew by
\* one entry exactly when the name was not in it.
C4_AddKeepsNamesUnique ==
  /\ UniqueNames(manifest)
  /\ \A p \in Procs :
       (cmd[p].kind = "add" /\ pc[p] = "finish") =>
         LET e == [name |-> cmd[p].name, ver |-> cmd[p].ver]
             before == startManifest[p]
         IN /\ CountName(manifest, e.name) = 1
            /\ e \in EntrySet(manifest)
            /\ {x \in EntrySet(manifest) : x.name # e.name}
                 = {x \in EntrySet(before) : x.name # e.name}
            /\ Len(manifest) = Len(before) + (IF HasOverride(before, e.name) THEN 0 ELSE 1)

C4_Witness ==
  \E p \in Procs :
    /\ cmd[p].kind = "add" /\ pc[p] = "finish"
    /\ HasOverride(startManifest[p], cmd[p].name)
    /\ [name |-> cmd[p].name, ver |-> cmd[p].ver] \notin EntrySet(startManifest[p])
    /\ Len(manifest) = NumNames

\* C5: when Api.removeOverride returns, the remove command on a name in the
\* manifest eliminates that entry, leaves the others unchanged and reports
\* success; on a name not in the manifest it changes nothing, reports 'Could
\* not remove override' and exits with status 1 instead of throwing. A remove
\* command that throws leaves the manifest unchanged.
C5_RemoveOutcome ==
  \A p \in Procs :
    cmd[p].kind = "remove" =>
      LET before == startManifest[p]
          n == cmd[p].name
      IN /\ pc[p] = "finish" =>
              /\ HasOverride(before, n)
              /\ manifest = SelectSeq(before, LAMBDA x : x.name # n)
              /\ msgs[p] = {"removed"}
              /\ exitCode[p] = -1
         /\ pc[p] = "exited" =>
              /\ ~HasOverride(before, n)
              /\ manifest = before
              /\ msgs[p] = {"couldNotRemove"}
              /\ exitCode[p] = 1
         /\ pc[p] = "failed" => manifest = before /\ msgs[p] = {}
         /\ (pc[p] \in {"finish", "exited"} /\ ~HasOverride(before, n)) => pc[p] = "exited"

C5_WitnessAbsent ==
  \E p \in Procs :
    /\ cmd[p].kind = "remove" /\ pc[p] = "exited" /\ Len(manifest) > 0
    /\ tryResult[p] = "false"

C5_Witness ==
  \E p, q \in Procs :
    /\ cmd[p].kind = "remove" /\ pc[p] = "finish" /\ Len(manifest) > 0
    /\ pc[q] = "waiting"

\* C6: once Api.validateManifest has returned its list, the exit code is 1 if
\* and only if the list is non-empty; with an empty list the spinner succeeds,
\* nothing is printed and the exit code is unset; with a non-empty list the
\* spinner fails and the errors are printed; validate never changes the
\* manifest.
C6_ValidateFindingsAreData ==
  \A p \in Procs :
    cmd[p].kind = "validate" =>
      /\ valCount[p] >= 0 =>
           /\ exitCode[p] = 1 <=> valCount[p] > 0
           /\ valCount[p] = 0 =>
                spinner[p] = "succeeded" /\ printed[p] = 0 /\ exitCode[p] = -1
           /\ valCount[p] > 0 =>
                spinner[p] = "failed" /\ printed[p] >= valCount[p] + 3
           /\ pc[p] = "finish"
      /\ pc[p] \in {"finish", "failed"} => manifest = startManifest[p]

C6_WitnessEmpty ==
  \E p \in Procs :
    cmd[p].kind = "validate" /\ valCount[p] = 0 /\ pc[p] = "finish"

C6_Witness ==
  \E p, q \in Procs :
    /\ pc[p] = "done" /\ exitCode[p] = -1
    /\ cmd[q].kind = "validate" /\ valCount[q] > 0 /\ exitCode[q] = 1
    /\ Len(manifest) > 0

\* C7: under fair scheduling a process blocked in lock() eventually acquires
\* the lock and runs its command body, whichever way the holders' operations
\* end.
C7_WaiterEventuallyRuns ==
  \A p \in Procs : (pc[p] = "waiting") ~> (pc[p] # "waiting")

\* C8: unlock() is called at most once per doMain, only by the process that
\* holds the lock, and only after its tryLock() returned true or its lock()
\* returned.
C8_UnlockOnceByHolder ==
  \A p \in Procs :
    /\ unlockCount[p] <= 1
    /\ ~badUnlock[p]
    /\ unlockCount[p] = 1 =>
         \/ tryResult[p] = "true"
         \/ tryResult[p] = "false" /\ calledLock[p]
    /\ pc[p] = "finish" => lockHolder = p /\ unlockCount[p] = 0

C8_Witness ==
  \E p, q \in Procs :
    /\ unlockCount[p] = 1 /\ tryResult[p] = "true"
    /\ unlockCount[q] = 1 /\ tryResult[q] = "false"

\* C9: an add command that fails at any step leaves the manifest with the set
\* of entries it had when the command started.
C9_FailedAddKeepsManifest ==
  \A p \in Procs :
    (cmd[p].kind = "add" /\ pc[p] = "failed") =>
      EntrySet(manifest) = EntrySet(startManifest[p])

\* C10: for a non-empty list of errors of the eight kinds, printValidationErrors
\* prints every error exactly once under the group of its own type, with the
\* groups in the fixed order; the working list ends empty and nothing is
\* thrown; the caller's list is unchanged.
TypeIndex(t) == CHOOSE i \in 1..Len(ErrorTypeOrder) : ErrorTypeOrder[i] = t

MsgLines(out) == SelectSeq(out, LAMBDA l : l[1] = "msg")

\* the type named by the last message line before line i, or "none"
GroupOf(out, i) ==
  LET before == MsgLines(SubSeq(out, 1, i - 1))
  IN IF Len(before) = 0 THEN "none" ELSE before[Len(before)][2]

CountError(errors, t, n) ==
  Cardinality({i \in 1..Len(errors) :
                 errors[i].type = t /\ errors[i].overrideName = n})

ItemsPrinted(out, t, n) ==
  Cardinality({i \in 1..Len(out) :
                 out[i][1] = "item" /\ out[i][2] = n /\ GroupOf(out, i) = t})

C10_PrintsEachErrorOnce ==
  (printResult.called /\ Len(printResult.input) > 0) =>
    LET out == printResult.out
        heads == MsgLines(out)
    IN /\ \A t \in ErrorTypes, n \in Names :
            ItemsPrinted(out, t, n)
              = CountError(printResult.input, t, n)
       /\ Len(SelectSeq(out, LAMBDA l : l[1] = "item")) = Len(printResult.input)
       /\ \A i, j \in 1..Len(heads) :
            i < j => TypeIndex(heads[i][2]) < TypeIndex(heads[j][2])
       /\ printResult.errors = <<>>
       /\ ~printResult.thrown
       /\ validationErrors = printResult.input

C10_Witness ==
  /\ printResult.called
  /\ Len(printResult.input) >= 2
  /\ \E i, j \in 1..Len(printResult.input) :
       /\ i < j
       /\ TypeIndex(printResult.input[i].type) > TypeIndex(printResult.input[j].type)
  /\ Len(MsgLines(printResult.out)) >= 2

====
